---- MODULE Spec2Model ----
(***************************************************************************)
(* The codehooks MCP server (src/src/index.ts) as a state machine.         *)
(*                                                                         *)
(* index.ts holds two revisions of the server one after the other: the     *)
(* execFile revision (lines 1-1656, 21 tools, argument vectors, output     *)
(* sanitisation) and the exec revision (lines 1657-2119, 2 tools, shell    *)
(* command strings).  A run of the model is a run of one of them; the      *)
(* variable revision says which.                                           *)
(*                                                                         *)
(* A tools/call request is handled by an async function.  One action of    *)
(* the model is one run of that function from one await to the next: the   *)
(* awaited operation completes (its effect on the filesystem happens, or   *)
(* the subprocess returns) and the code that follows runs up to the next   *)
(* await, where the next operation is issued.  Requests in flight          *)
(* interleave at these points.                                             *)
(*                                                                         *)
(* Text is a sequence of atoms.  The characters of the admin token are     *)
(* atoms of their own, so that substring search and the regular            *)
(* expression built from the token work on them; a fixed piece of a        *)
(* message ("Command failed: ") is one atom.                               *)
(***************************************************************************)
EXTENDS Integers, Sequences, FiniteSets, TLC

VARIABLES revision, config, now, fs, cwd, nextTmp, req, log, container

vars == <<revision, config, now, fs, cwd, nextTmp, req, log, container>>

\* ------------------------------------------------------------------ bounds

\* Requests received in one run.
MaxReq == 2
\* Date.now() takes the values 0..MaxClock.
MaxClock == 1

Requests == 1..MaxReq

\* ------------------------------------------------------------------- text

RECURSIVE Flatten(_)
Flatten(ts) == IF ts = <<>> THEN <<>> ELSE Head(ts) \o Flatten(Tail(ts))

\* Array.prototype.join(' ') of an argument vector (a sequence of texts).
RECURSIVE JoinSpace(_)
JoinSpace(argv) ==
    IF argv = <<>> THEN <<>>
    ELSE IF Len(argv) = 1 THEN Head(argv)
    ELSE Head(argv) \o <<" ">> \o JoinSpace(Tail(argv))

\* String.prototype.includes: pat occurs in text as a substring.
Contains(text, pat) ==
    \E i \in 1..(Len(text) - Len(pat) + 1) : SubSeq(text, i, i + Len(pat) - 1) = pat

\* new RegExp(pat): the position after a match of pat[j..] at text[i..], or 0
\* when there is none.  A pattern character stands for itself, except "$",
\* which matches the empty string at the end of the input and nowhere else.
RECURSIVE MatchEnd(_, _, _, _)
MatchEnd(pat, j, text, i) ==
    IF j > Len(pat) THEN i
    ELSE IF pat[j] = "$"
         THEN IF i > Len(text) THEN MatchEnd(pat, j + 1, text, i) ELSE 0
         ELSE IF i <= Len(text) /\ text[i] = pat[j]
              THEN MatchEnd(pat, j + 1, text, i + 1)
              ELSE 0

RECURSIVE ReplaceFrom(_, _, _)
ReplaceFrom(pat, text, i) ==
    IF i > Len(text) THEN <<>>
    ELSE LET e == MatchEnd(pat, 1, text, i)
         IN  IF e > i
             THEN <<"***">> \o ReplaceFrom(pat, text, e)
             ELSE <<text[i]>> \o ReplaceFrom(pat, text, i + 1)

\* text ? text.replace(new RegExp(config.adminToken, 'g'), '***') : text
RegExpReplace(text, pat) == ReplaceFrom(pat, text, 1)

\* String.prototype.replace(string, '***'): the first literal occurrence only.
RECURSIVE ReplaceFirstFrom(_, _, _)
ReplaceFirstFrom(pat, text, i) ==
    IF pat = <<>> THEN <<"***">> \o text
    ELSE IF i + Len(pat) - 1 > Len(text) THEN SubSeq(text, i, Len(text))
    ELSE IF SubSeq(text, i, i + Len(pat) - 1) = pat
         THEN <<"***">> \o SubSeq(text, i + Len(pat), Len(text))
         ELSE <<text[i]>> \o ReplaceFirstFrom(pat, text, i + 1)

StringReplace(text, pat) == ReplaceFirstFrom(pat, text, 1)

\* ---------------------------------------------------------- configuration

\* process.env.CODEHOOKS_ADMIN_TOKEN: unset, a token of plain characters, a
\* token with a character that is special in a regular expression.
EnvTokens == { <<>>, <<"t", "k">>, <<"t", "$", "k">> }
\* process.env.CODEHOOKS_PROJECT_NAME: unset, set.
EnvProjects == { "", "proj1" }
\* process.env.CODEHOOKS_SPACE || "dev"
EnvSpaces == { "dev" }

\* String.prototype.trim() === ''
Blank(s) == s \in { "", " " }

\* The environment of the process: the value of each variable ("" and <<>>
\* stand for a variable that is unset or empty).
Environment(name, id, space, token) ==
    [CODEHOOKS_PROJECT_NAME |-> name, CODEHOOKS_PROJECT_ID |-> id,
     CODEHOOKS_SPACE |-> space, CODEHOOKS_ADMIN_TOKEN |-> token]

\* const config = { projectId: process.env.CODEHOOKS_PROJECT_NAME || "",
\* space: process.env.CODEHOOKS_SPACE || "dev",
\* adminToken: process.env.CODEHOOKS_ADMIN_TOKEN || "" }
ServerConfig(env) ==
    [projectId |-> env.CODEHOOKS_PROJECT_NAME,
     space |-> IF env.CODEHOOKS_SPACE = "" THEN "dev" ELSE env.CODEHOOKS_SPACE,
     adminToken |-> env.CODEHOOKS_ADMIN_TOKEN]

\* container is [pc, env, stdout]: "entrypoint" while docker-entrypoint.sh
\* runs, "exited" after its exit 1, "node" while the server runs; the
\* environment it was started with; what the script has echoed.
NodeStarted(env) == [pc |-> "node", env |-> env, stdout |-> <<>>]

\* ---------------------------------------------------------- tool registry

\* const tools = [...] of the execFile revision.
ToolsExecFile ==
    { "query_collection", "deploy_code", "file_upload", "file_delete", "file_list",
      "create_index", "drop_index", "create_collection", "drop_collection",
      "add_schema", "remove_schema", "cap_collection", "uncap_collection",
      "import", "export", "kv_get", "kv_set", "kv_del", "logs", "docs", "collection" }

\* const tools = [...] of the exec revision.
ToolsExec == { "query_collection", "deploy_code" }

Tools(rev) == IF rev = "execFile" THEN ToolsExecFile ELSE ToolsExec

\* tools.find(t => t.name === request.params.name)
ToolLookup(rev, name) == name \in Tools(rev)

\* The fields a schema requires: the z.object fields that are not .optional().
RequiredFields(name) ==
    CASE name \in { "query_collection", "create_collection", "drop_collection",
                    "remove_schema", "uncap_collection", "import", "export" }
              -> { "collection" }
      [] name = "deploy_code" -> { "files" }
      [] name = "file_upload" -> { "content", "target" }
      [] name \in { "create_index", "drop_index" } -> { "collection", "index" }
      [] name = "add_schema" -> { "collection", "schema" }
      [] name = "cap_collection" -> { "collection", "cap" }
      [] name = "kv_set" -> { "key", "val" }
      [] name = "kv_del" -> { "key" }
      [] OTHER -> {}

\* All the fields of a schema (z.object drops the keys it does not know).
SchemaFields(name) ==
    CASE name = "query_collection"
              -> { "collection", "query", "count", "delete", "update", "replace",
                   "useindex", "start", "end", "limit", "fields", "sort", "offset",
                   "enqueue", "reverse", "csv", "jsonl", "pretty", "table" }
      [] name = "deploy_code" -> { "files", "main", "json", "projectId", "spaceId" }
      [] name = "file_upload" -> { "content", "encoding", "target" }
      [] name = "file_delete" -> { "filename", "match", "dryrun" }
      [] name = "file_list" -> { "path" }
      [] name \in { "create_index", "drop_index" } -> { "collection", "index" }
      [] name \in { "create_collection", "drop_collection", "remove_schema",
                    "uncap_collection" } -> { "collection" }
      [] name = "add_schema" -> { "collection", "schema" }
      [] name = "cap_collection" -> { "collection", "cap" }
      [] name = "import" -> { "filepath", "content", "collection", "separator", "encoding" }
      [] name = "export" -> { "collection", "filepath", "csv", "jsonl" }
      [] name = "kv_get" -> { "key", "keyspace", "text" }
      [] name = "kv_set" -> { "key", "val", "keyspace", "ttl", "json" }
      [] name = "kv_del" -> { "key", "keyspace", "json" }
      [] name = "logs" -> { "tail", "follow", "context" }
      [] name = "collection" -> { "project", "json", "sys" }
      [] OTHER -> {}

\* request.params.arguments is modelled as [val, bad]: val maps the fields that
\* were supplied with a value of the schema's type to that value, bad is the
\* set of fields supplied with a value of another type.
\* tool.schema.parse(arguments) succeeds (TRUE) or throws a ZodError (FALSE).
SchemaParse(name, arguments) ==
    /\ RequiredFields(name) \subseteq DOMAIN arguments.val
    /\ arguments.bad \cap SchemaFields(name) = {}

\* ------------------------------------------------------ argument vectors

NoArgs == [f \in {} |-> ""]

Has(a, f) == f \in DOMAIN a
\* if (x) for a string, a boolean and a number field.
TruthyStr(a, f) == Has(a, f) /\ a[f] # ""
TruthyBool(a, f) == Has(a, f) /\ a[f] = TRUE
TruthyNum(a, f) == Has(a, f) /\ a[f] # 0

\* if (x) args.push(flag, x) / if (x) args.push(flag) / x.toString()
OptStr(a, f, flag) == IF TruthyStr(a, f) THEN << <<flag>>, <<a[f]>> >> ELSE <<>>
OptPos(a, f) == IF TruthyStr(a, f) THEN << <<a[f]>> >> ELSE <<>>
OptBool(a, f, flag) == IF TruthyBool(a, f) THEN << <<flag>> >> ELSE <<>>
OptNum(a, f, flag) ==
    IF TruthyNum(a, f) THEN << <<flag>>, <<ToString(a[f])>> >> ELSE <<>>

\* limit = count ? undefined : 100
DefaultLimit == 100
\* The tail default of logSchema.
DefaultTail == 100

\* const { ..., limit = count ? undefined : 100, ... } = args; then
\* if (limit) queryArgs.push('--limit', limit.toString())
LimitArgs(a) ==
    IF Has(a, "limit") THEN OptNum(a, "limit", "--limit")
    ELSE IF TruthyBool(a, "count") THEN <<>>
    ELSE << <<"--limit">>, <<ToString(DefaultLimit)>> >>

\* ['<sub>', '--project', config.projectId, '--space', config.space]
Base(sub, projectFlag, cfg) ==
    << <<sub>>, <<projectFlag>>, <<cfg.projectId>>, <<"--space">>, <<cfg.space>> >>

QueryArgs(a, cfg) ==
    << <<"query">>, <<"--collection">>, <<a.collection>>, <<"--project">>,
       <<cfg.projectId>>, <<"--space">>, <<cfg.space>> >>
    \o OptStr(a, "query", "--query") \o OptBool(a, "count", "--count")
    \o OptBool(a, "delete", "--delete") \o OptStr(a, "update", "--update")
    \o OptStr(a, "replace", "--replace") \o OptStr(a, "useindex", "--useindex")
    \o OptStr(a, "start", "--start") \o OptStr(a, "end", "--end")
    \o LimitArgs(a)
    \o OptStr(a, "fields", "--fields") \o OptStr(a, "sort", "--sort")
    \o OptNum(a, "offset", "--offset") \o OptStr(a, "enqueue", "--enqueue")
    \o OptBool(a, "reverse", "--reverse") \o OptBool(a, "csv", "--csv")
    \o OptBool(a, "jsonl", "--jsonl")

\* The argument vector a tool handler of the execFile revision hands to
\* executeCohoCommand; staged is the path of the staged file, if any.
ToolArgs(name, a, cfg, staged) ==
    CASE name = "query_collection" -> QueryArgs(a, cfg)
      [] name = "file_upload" ->
            << <<"file-upload">>, <<"--projectname">>, <<cfg.projectId>>, <<"--space">>,
               <<cfg.space>>, <<"--src">>, staged, <<"--target">>, <<a.target>> >>
      [] name = "file_delete" ->
            << <<"file-delete">>, <<"--projectname">>, <<cfg.projectId>>, <<"--space">>,
               <<cfg.space>> >>
            \o OptStr(a, "filename", "--filename") \o OptStr(a, "match", "--match")
            \o OptBool(a, "dryrun", "--dryrun")
      [] name = "file_list" -> Base("file-list", "--project", cfg) \o OptPos(a, "path")
      [] name = "create_index" ->
            Base("createindex", "--project", cfg) \o << <<a.collection>>, <<a.index>> >>
      [] name = "drop_index" ->
            Base("removeindex", "--project", cfg) \o << <<a.collection>>, <<a.index>> >>
      [] name = "create_collection" ->
            Base("createcollection", "--project", cfg) \o << <<a.collection>> >>
      [] name = "drop_collection" ->
            Base("dropcollection", "--project", cfg) \o << <<a.collection>> >>
      [] name = "add_schema" ->
            Base("add-schema", "--project", cfg)
            \o << <<"--collection">>, <<a.collection>>, <<"--schema">>, staged >>
      [] name = "remove_schema" ->
            Base("remove-schema", "--project", cfg) \o << <<a.collection>> >>
      [] name = "cap_collection" ->
            Base("cap-collection", "--project", cfg)
            \o << <<"--cap">>, <<ToString(a.cap)>>, <<a.collection>> >>
      [] name = "uncap_collection" ->
            Base("uncap-collection", "--project", cfg) \o << <<a.collection>> >>
      [] name = "import" ->
            Base("import", "--project", cfg) \o << <<"--collection">>, <<a.collection>> >>
            \o (IF TruthyStr(a, "content") THEN << <<"--filepath">>, staged >>
                ELSE OptStr(a, "filepath", "--filepath"))
            \o OptStr(a, "separator", "--separator") \o OptStr(a, "encoding", "--encoding")
      [] name = "export" ->
            Base("export", "--project", cfg) \o << <<"--collection">>, <<a.collection>> >>
            \o OptStr(a, "filepath", "--file") \o OptBool(a, "csv", "--csv")
            \o OptBool(a, "jsonl", "--jsonl")
      [] name = "kv_get" ->
            Base("get", "--project", cfg)
            \o << <<IF Has(a, "key") THEN a.key ELSE "*">> >>
            \o OptStr(a, "keyspace", "--keyspace") \o OptBool(a, "text", "--text")
      [] name = "kv_set" ->
            Base("set", "--project", cfg) \o << <<a.key>>, <<a.val>> >>
            \o OptStr(a, "keyspace", "--keyspace") \o OptNum(a, "ttl", "--ttl")
            \o OptBool(a, "json", "--json")
      [] name = "kv_del" ->
            Base("del", "--project", cfg) \o << <<a.key>> >>
            \o OptStr(a, "keyspace", "--keyspace") \o OptBool(a, "json", "--json")
      [] name = "logs" ->
            Base("log", "--project", cfg)
            \o << <<"--tail">>,
                  <<ToString(IF Has(a, "tail") THEN a.tail ELSE DefaultTail)>> >>
            \o OptBool(a, "follow", "--follow") \o OptStr(a, "context", "--context")
      [] name = "collection" ->
            << <<"collection">>, <<"--project">>,
               <<IF TruthyStr(a, "project") THEN a.project ELSE cfg.projectId>>,
               <<"--space">>, <<cfg.space>> >>
            \o OptBool(a, "json", "--json") \o OptBool(a, "sys", "--sys")

\* The command string the query_collection handler of the exec revision hands
\* to executeCohoCommand: `query ${queryParams}`.
QuoteStr(a, f, flag) ==
    IF TruthyStr(a, f) THEN << <<flag, " ", "'", a[f], "'">> >> ELSE <<>>
PlainStr(a, f, flag) == IF TruthyStr(a, f) THEN << <<flag, " ", a[f]>> >> ELSE <<>>
PlainNum(a, f, flag) ==
    IF TruthyNum(a, f) THEN << <<flag, " ", ToString(a[f])>> >> ELSE <<>>

QueryCommand(a, cfg) ==
    <<"query", " ">> \o
    JoinSpace(
        << <<"--collection", " ", a.collection>>, <<"--project", " ", cfg.projectId>>,
           <<"--space", " ", cfg.space>> >>
        \o QuoteStr(a, "query", "--query") \o OptBool(a, "count", "--count")
        \o OptBool(a, "delete", "--delete") \o QuoteStr(a, "update", "--update")
        \o QuoteStr(a, "replace", "--replace") \o PlainStr(a, "useindex", "--useindex")
        \o QuoteStr(a, "start", "--start") \o QuoteStr(a, "end", "--end")
        \o (IF Has(a, "limit") THEN PlainNum(a, "limit", "--limit")
            ELSE IF TruthyBool(a, "count") THEN <<>>
            ELSE << <<"--limit", " ", ToString(DefaultLimit)>> >>)
        \o QuoteStr(a, "fields", "--fields") \o QuoteStr(a, "sort", "--sort")
        \o PlainNum(a, "offset", "--offset") \o PlainStr(a, "enqueue", "--enqueue")
        \o OptBool(a, "pretty", "--pretty") \o OptBool(a, "reverse", "--reverse")
        \o OptBool(a, "table", "--table") \o OptBool(a, "csv", "--csv"))

\* --------------------------------------------------------- request state

NoPath == <<>>
NoErr == [kind |-> "none", code |-> "", msg |-> <<>>]
NoResp == [kind |-> "none", isError |-> FALSE, code |-> "", text |-> <<>>]

\* One tools/call request: where its handler stands (pc), its tool name, the
\* arguments as received (params) and as parsed (args), the path it staged,
\* the subprocesses it started (spawned), the value or error it carries
\* across an await, and its response.  leftover
\* records whether the staged path existed when the response was produced.
IdleReq ==
    [pc |-> "idle", name |-> "", params |-> [val |-> NoArgs, bad |-> {}],
     args |-> NoArgs, staged |-> NoPath,
     spawned |-> <<>>, result |-> <<>>, err |-> NoErr, files |-> <<>>, idx |-> 0,
     origCwd |-> NoPath, failedAt |-> "", resp |-> NoResp, leftover |-> FALSE]

McpError(code, msg) == [kind |-> "McpError", code |-> code, msg |-> msg]
ZodError(msg) == [kind |-> "ZodError", code |-> "", msg |-> msg]
Error(msg) == [kind |-> "Error", code |-> "", msg |-> msg]

\* A catch that throws every error it knows on to the transport.
OuterCatchThrowsZodError(err) ==
    CASE err.kind \in { "McpError", "ZodError" } ->
            [kind |-> "fault", isError |-> FALSE, code |-> err.code, text |-> err.msg]
      [] OTHER ->
            [kind |-> "payload", isError |-> TRUE, code |-> "",
             text |-> <<"Error: ">> \o err.msg]

\* The catch of the CallTool handler: an McpError is thrown on to the
\* transport, a ZodError and any other error become an isError payload.
OuterCatch(err) ==
    CASE err.kind = "McpError" ->
            [kind |-> "fault", isError |-> FALSE, code |-> err.code, text |-> err.msg]
      [] err.kind = "ZodError" ->
            [kind |-> "payload", isError |-> TRUE, code |-> "",
             text |-> <<"Invalid arguments: ">> \o err.msg]
      [] OTHER ->
            [kind |-> "payload", isError |-> TRUE, code |-> "",
             text |-> <<"Error: ">> \o err.msg]

\* return { content: [{ type: "text", text }], isError: false }
Payload(text) == [kind |-> "payload", isError |-> FALSE, code |-> "", text |-> text]

\* The request ends with an error thrown inside the handler's try block.
Fail(q, err, at) ==
    [q EXCEPT !.pc = "done", !.err = err, !.failedAt = at, !.resp = OuterCatch(err)]

\* The request ends with an error thrown by the handler outside its try block.
\* A handler that answers with an error payload where the code throws.
ThrowAsPayload(q, err, at) ==
    [q EXCEPT !.pc = "done", !.err = err, !.failedAt = at,
              !.resp = [kind |-> "payload", isError |-> TRUE, code |-> "",
                        text |-> <<"Error: ">> \o err.msg]]
Throw(q, err, at) ==
    [q EXCEPT !.pc = "done", !.err = err, !.failedAt = at,
              !.resp = [kind |-> "fault", isError |-> FALSE, code |-> err.code,
                        text |-> err.msg]]
Return(q, text) == [q EXCEPT !.pc = "done", !.resp = Payload(text)]

\* What a look at the filesystem finds at the staged path of q when its
\* response is produced.
Observe(q, files) ==
    IF q.pc = "done"
    THEN [q EXCEPT !.leftover = (q.staged # NoPath /\ q.staged \in DOMAIN files)]
    ELSE q

Lines(r, texts) == { [r |-> r, text |-> t] : t \in texts }

\* ------------------------------------------------------- command executor

\* timeout: 120000 of executeCohoCommand.
TimeoutMs == 120000

\* How a subprocess can end: exit status 0, a non-zero exit status, killed at
\* the timeout.
Outcomes ==
    { [kind |-> "ok", stdout |-> <<"[1]">>, stderr |-> <<>>],
      [kind |-> "exit", stdout |-> <<>>, stderr |-> <<"boom">>],
      [kind |-> "timeout", stdout |-> <<>>, stderr |-> <<>>] }

\* A subprocess is [file, argv, shell, timeout, cwd, ended, site]: the
\* executable, its argument vector (for a shell, the one command string), the
\* timeout option (0: none), the working directory it starts in, how it ended
\* ("no" while it runs), and the place in the code that started it.
Ended(q, out) == [q EXCEPT !.spawned[Len(q.spawned)].ended = out.kind]

\* The command line child_process reports in error.cmd and error.message.
CmdLine(p) == IF p.shell THEN Head(p.argv) ELSE JoinSpace(<< <<p.file>> >> \o p.argv)

\* error.message of a rejected execFile / exec promise.
ErrorMessage(p, out) == <<"Command failed: ">> \o CmdLine(p) \o <<"\n">> \o out.stderr

\* The subprocess executeCohoCommand starts, and the line it logs first.
CohoProcess(rev, cfg, command, dir) ==
    IF rev = "execFile"
    THEN [file |-> "coho", argv |-> command \o << <<"--admintoken">>, cfg.adminToken >>,
          shell |-> FALSE, timeout |-> TimeoutMs, cwd |-> dir, ended |-> "no",
          site |-> "executeCohoCommand"]
    ELSE [file |-> "/bin/sh",
          argv |-> << <<"coho", " ">> \o command \o <<" ", "--admintoken", " ">>
                      \o cfg.adminToken \o <<" ">> >>,
          shell |-> TRUE, timeout |-> 0, cwd |-> dir, ended |-> "no",
          site |-> "executeCohoCommand"]

CohoStartLine(rev, cfg, command) ==
    IF rev = "execFile"
    THEN <<"Executing command: ">>
         \o JoinSpace(<< <<"coho">> >> \o command \o << <<"--admintoken">>, <<"***">> >>)
    ELSE <<"Executing command: coho ">> \o StringReplace(command, cfg.adminToken)

\* const sanitizeText = (text) => text ? text.replace(new RegExp(token, 'g'), '***') : text
SanitizeText(text, token) == IF text = <<>> THEN text ELSE RegExpReplace(text, token)

\* [a, b].filter(Boolean).join(' - ')
JoinDetails(a, b) ==
    IF a = <<>> THEN b ELSE IF b = <<>> THEN a ELSE a \o <<" - ">> \o b

\* executeCohoCommand after its subprocess p ended with out: the value it
\* returns or the error it throws, and the lines it logs.
ExecuteCohoCommand(rev, cfg, p, out) ==
    IF rev = "execFile"
    THEN IF out.kind = "ok"
         THEN [ok |-> TRUE,
               value |-> SanitizeText(IF out.stdout # <<>> THEN out.stdout ELSE out.stderr,
                                      cfg.adminToken),
               err |-> NoErr,
               lines |-> (IF out.stderr # <<>>
                          THEN { <<"Command output to stderr: ">>
                                 \o RegExpReplace(out.stderr, cfg.adminToken) }
                          ELSE {}) \cup { <<"Command successful">> }]
         ELSE LET sanitizedMessage == SanitizeText(ErrorMessage(p, out), cfg.adminToken)
                  sanitizedCmd == SanitizeText(CmdLine(p), cfg.adminToken)
                  sanitizedStdout == SanitizeText(out.stdout, cfg.adminToken)
                  sanitizedStderr == SanitizeText(out.stderr, cfg.adminToken)
              IN  [ok |-> FALSE, value |-> <<>>,
                   err |-> McpError("InvalidRequest",
                                    <<"Command failed: ">>
                                    \o JoinDetails(sanitizedMessage, sanitizedStderr)),
                   lines |-> { <<"Command failed: ">> \o sanitizedMessage }
                             \cup (IF sanitizedCmd # <<>>
                                   THEN { <<"Command: ">> \o sanitizedCmd } ELSE {})
                             \cup (IF sanitizedStdout # <<>>
                                   THEN { <<"Stdout: ">> \o sanitizedStdout } ELSE {})
                             \cup (IF sanitizedStderr # <<>>
                                   THEN { <<"Stderr: ">> \o sanitizedStderr } ELSE {})]
    ELSE IF out.kind = "ok"
         THEN [ok |-> TRUE,
               value |-> IF out.stdout # <<>> THEN out.stdout ELSE out.stderr,
               err |-> NoErr,
               lines |-> (IF out.stderr # <<>>
                          THEN { <<"Command output to stderr: ">> \o out.stderr }
                          ELSE {}) \cup { <<"Command successful">> }]
         ELSE [ok |-> FALSE, value |-> <<>>,
               err |-> McpError("InvalidRequest",
                                <<"Command failed: ">> \o ErrorMessage(p, out)),
               lines |-> { <<"Command failed: ">> \o ErrorMessage(p, out) }]

\* ------------------------------------------------------------------ shell

\* The characters of a caller-supplied value that /bin/sh treats specially,
\* as atoms of their own: a space, a semicolon, a single quote.
Chars(v) ==
    CASE v = "a b" -> <<"a", " ", "b">>
      [] v = "x;id" -> <<"x", ";", "id">>
      [] v = "users --limit 5" -> <<"users", " ", "--limit", " ", "5">>
      [] v = "{'a':1}" -> <<"{", "'", "a", "'", ":1}">>
      [] OTHER -> <<v>>

RECURSIVE Expand(_)
Expand(text) == IF text = <<>> THEN <<>> ELSE Chars(Head(text)) \o Expand(Tail(text))

\* /bin/sh -c text, as exec() of child_process runs it: the commands of the
\* command string, each the sequence of its words.  Outside single quotes a
\* space ends a word, a semicolon ends a command and $name stands for an
\* unset variable; a single quote opens or closes a quoted stretch.
\* st is [cmds, argv, word, inword, quoted].
RECURSIVE ShellScan(_, _, _)
ShellScan(text, i, st) ==
    LET endWord == IF st.inword
                   THEN [st EXCEPT !.argv = Append(@, st.word), !.word = <<>>,
                                   !.inword = FALSE]
                   ELSE st
        endCmd == IF endWord.argv # <<>>
                  THEN [endWord EXCEPT !.cmds = Append(@, endWord.argv), !.argv = <<>>]
                  ELSE endWord
    IN  IF i > Len(text) THEN endCmd.cmds
        ELSE IF text[i] = "'"
        THEN ShellScan(text, i + 1, [st EXCEPT !.quoted = ~@, !.inword = TRUE])
        ELSE IF st.quoted
        THEN ShellScan(text, i + 1, [st EXCEPT !.word = Append(@, text[i])])
        ELSE IF text[i] = " " THEN ShellScan(text, i + 1, endWord)
        ELSE IF text[i] = ";" THEN ShellScan(text, i + 1, endCmd)
        ELSE IF text[i] = "$" /\ i < Len(text) /\ text[i + 1] \notin { " ", ";", "'" }
        THEN ShellScan(text, i + 2, [st EXCEPT !.inword = TRUE])
        ELSE ShellScan(text, i + 1, [st EXCEPT !.word = Append(@, text[i]),
                                               !.inword = TRUE])

ShellCommands(text) ==
    ShellScan(Expand(text), 1,
              [cmds |-> <<>>, argv |-> <<>>, word |-> <<>>, inword |-> FALSE,
               quoted |-> FALSE])

\* The programs a subprocess runs, each with the argument vector it is given
\* (the program name first): one for execFile, the commands of the command
\* string for exec.
Programs(p) ==
    IF p.shell THEN ShellCommands(Head(p.argv)) ELSE << << <<p.file>> >> \o p.argv >>

\* ------------------------------------------------------------- filesystem

\* WORKDIR /app of the image: the working directory the server starts in.
AppDir == <<"/app">>

\* fs maps each path under /tmp that exists to [owner, kind, content]: the
\* request that wrote it last, "file" or "dir", and what it holds (the content
\* of a file, the set of relative paths written into a directory).
Exists(path, files) == path = AppDir \/ path \in DOMAIN files

WriteTo(files, path, r, kind, content) ==
    [p \in DOMAIN files \cup {path} |->
        IF p = path THEN [owner |-> r, kind |-> kind, content |-> content] ELSE files[p]]

RemoveNothing(files, path) == files
Remove(files, path) == [p \in DOMAIN files \ {path} |-> files[p]]

\* path.basename(target) for the targets of the model.
Basename(target) ==
    CASE target = "a/x.txt" -> "x.txt"
      [] target = "b/x.txt" -> "x.txt"
      [] OTHER -> target

\* Buffer.from(content, 'base64') for the contents of the model.
Base64Decode(content) ==
    CASE content = "aGk=" -> "hi"
      [] OTHER -> ""

\* The path a file-bearing tool stages its content at.
\*   file_upload: `/tmp/${path.basename(target)}`
\*   add_schema:  `/tmp/schema-${Date.now()}.json`
\*   import:      `/tmp/import-${Date.now()}.json`
StagedPath(name, a, clock) ==
    CASE name = "file_upload" -> <<"/tmp/", Basename(a.target)>>
      [] name = "add_schema" -> <<"/tmp/schema-", ToString(clock), ".json">>
      [] name = "import" -> <<"/tmp/import-", ToString(clock), ".json">>

\* What fs.writeFile is given to write.
StagedContent(name, a) ==
    CASE name = "file_upload" ->
            IF Has(a, "encoding") /\ a.encoding = "base64"
            THEN Base64Decode(a.content) ELSE a.content
      [] name = "add_schema" -> a.schema
      [] name = "import" -> a.content

\* --------------------------------------------------------------- dispatcher

\* The configuration check at the head of the CallTool handler: what is found
\* missing ("none" when the request may go on).  The exec revision logs a
\* missing project and goes on.
ConfigCheck(rev, cfg) ==
    IF rev = "execFile"
    THEN IF cfg.projectId = "" \/ Blank(cfg.projectId) THEN "project"
         ELSE IF cfg.adminToken = <<>> THEN "token" ELSE "none"
    ELSE IF cfg.adminToken = <<>> THEN "token" ELSE "none"

\* A handler calls executeCohoCommand, which logs and starts the subprocess.
StartCoho(q, rev, cfg, command, dir) ==
    [q |-> [q EXCEPT !.pc = "coho",
                     !.spawned = Append(@, CohoProcess(rev, cfg, command, dir))],
     lines |-> { CohoStartLine(rev, cfg, command) }]

\* if (!filename && !match) / if (!filepath && !content)  (Before it, a
\* handler without these checks.)
EitherOrUnchecked(name, a) == name \in {}
EitherOrMissing(name, a) ==
    \/ name = "file_delete" /\ ~TruthyStr(a, "filename") /\ ~TruthyStr(a, "match")
    \/ name = "import" /\ ~TruthyStr(a, "filepath") /\ ~TruthyStr(a, "content")

\* A tool that writes its content to a file before it calls coho.  (Before
\* it, an import that stages a file whatever it was given.)
StagesFileAlways(name, a) == name \in { "file_upload", "add_schema", "import" }
StagesFile(name, a) ==
    \/ name \in { "file_upload", "add_schema" }
    \/ name = "import" /\ TruthyStr(a, "content")

\* ---------------------------------------------------------- package.json

\* A manifest is a function from its top-level keys to their values; the
\* values of scripts and dependencies are functions again.

\* const defaultPackage = { name: projectId || config.projectId ||
\* "codehooks-project", version: "1.0.0", ..., main: `${main}.js`, ... } of the
\* write loop.
DefaultPackage(a, cfg) ==
    [name |-> IF TruthyStr(a, "projectId") THEN a.projectId
              ELSE IF cfg.projectId # "" THEN cfg.projectId ELSE "codehooks-project",
     version |-> "1.0.0",
     description |-> "Codehooks project",
     main |-> (IF Has(a, "main") THEN a.main ELSE "index") \o ".js",
     scripts |-> [test |-> "echo \"Error: no test specified\" && exit 1"],
     author |-> "",
     license |-> "ISC",
     dependencies |-> ("codehooks-js" :> "latest")]

\* const defaultPackageJson = { ..., type: "module", ... } pushed when files
\* has no package.json.
DefaultPackageJson(a, cfg) == ("type" :> "module") @@ DefaultPackage(a, cfg)

\* { ...defaultPackage, ...packageJson }
Spread(defaults, over) ==
    [k \in DOMAIN defaults \cup DOMAIN over |->
        IF k \in DOMAIN over THEN over[k] ELSE defaults[k]]

\* JSON.stringify(manifest, null, 2), with the keys in one fixed order and
\* without the line breaks and the escapes.
KeyOrder ==
    <<"name", "version", "description", "type", "main", "scripts", "author", "license",
      "dependencies", "test", "codehooks-js", "lodash">>
ObjectKeys == { "scripts", "dependencies" }

RECURSIVE Members(_, _)
Members(m, keys) ==
    IF keys = <<>> THEN ""
    ELSE LET k == Head(keys)
             rest == Members(m, Tail(keys))
         IN  IF k \notin DOMAIN m THEN rest
             ELSE "\"" \o k \o "\": "
                  \o (IF k \in ObjectKeys THEN "{" \o Members(m[k], KeyOrder) \o "}"
                      ELSE "\"" \o m[k] \o "\"")
                  \o (IF rest = "" THEN "" ELSE ", " \o rest)

JsonStringify(m) == "{" \o Members(m, KeyOrder) \o "}"

\* The manifests callers send, as they wrote them.
MineText == "{\"name\":\"mine\"}"
FullText == "{\"name\":\"mine\",\"main\":\"app.js\",\"dependencies\":{\"lodash\":\"4\"}}"
CallerPackages ==
    [text \in { MineText, FullText } |->
        IF text = MineText THEN [name |-> "mine"]
        ELSE [name |-> "mine", main |-> "app.js", dependencies |-> [lodash |-> "4"]]]

\* The manifests the handler itself can have serialised for arguments a.
OwnPackages(a, cfg) ==
    { DefaultPackage(a, cfg), DefaultPackageJson(a, cfg) }
    \cup { Spread(DefaultPackage(a, cfg), CallerPackages[t]) : t \in DOMAIN CallerPackages }

\* JSON.parse(file.content): the manifest a text stands for, or a SyntaxError.
JsonParse(text, a, cfg) ==
    IF text \in DOMAIN CallerPackages THEN [ok |-> TRUE, val |-> CallerPackages[text]]
    ELSE LET ms == { m \in OwnPackages(a, cfg) : JsonStringify(m) = text }
         IN  IF ms = {} THEN [ok |-> FALSE, val |-> <<>>]
             ELSE [ok |-> TRUE, val |-> CHOOSE m \in ms : TRUE]

\* path.join(tmpDir, file.path) below tmpDir.
PathJoin(path) ==
    CASE path = "./package.json" -> "package.json"
      [] path = "/abs.js" -> "abs.js"
      [] OTHER -> path

\* path.join(tmpDir, file.path) leaves tmpDir: '..' takes it to /tmp.
Escapes(path) == path = "../x.txt"
OutsidePath(path) == <<"/tmp/", "x.txt">>

\* What the write loop writes for one file, and the line it logs when the
\* caller's package.json does not parse.
WrittenFile(file, a, cfg) ==
    IF file.path = "package.json"
    THEN LET parsed == JsonParse(file.content, a, cfg)
         IN  IF parsed.ok
             THEN [text |-> JsonStringify(Spread(DefaultPackage(a, cfg), parsed.val)),
                   lines |-> {}]
             ELSE [text |-> JsonStringify(DefaultPackage(a, cfg)),
                   lines |-> { <<"Invalid package.json content, using default">> }]
    ELSE [text |-> file.content, lines |-> {}]

\* deploy_code up to its first await (fs.mkdtemp): filesToDeploy is files plus,
\* in the execFile revision, a default package.json when files has none.
StartDeploy(q, rev, cfg) ==
    LET files == q.args.files
        hasPackageJson == \E i \in 1..Len(files) : files[i].path = "package.json"
        filesToDeploy ==
            IF rev = "execFile" /\ ~hasPackageJson
            THEN Append(files, [path |-> "package.json",
                                content |-> JsonStringify(DefaultPackageJson(q.args, cfg))])
            ELSE files
    IN  [q |-> [q EXCEPT !.pc = "mkdtemp", !.files = filesToDeploy],
         lines |-> (IF rev = "execFile" /\ ~hasPackageJson
                    THEN { <<"No package.json provided, creating default one">> }
                    ELSE {})
                   \cup { <<"Deploying ", ToString(Len(filesToDeploy)), " files">> }]

\* The switch of the CallTool handler up to the first await of the tool's case.
Dispatch(q, rev, cfg, clock, dir) ==
    LET a == q.args
    IN  IF q.name \notin Tools(rev)
        THEN [q |-> Fail(q, McpError("MethodNotFound", <<"Tool not found">>), "default"),
              lines |-> {}]
        ELSE IF q.name = "docs"
        THEN [q |-> Return(q, <<"# Codehooks.io Complete Documentation">>), lines |-> {}]
        ELSE IF q.name = "deploy_code" THEN StartDeploy(q, rev, cfg)
        ELSE IF EitherOrMissing(q.name, a)
        THEN [q |-> Fail(q, McpError("InvalidRequest",
                                     IF q.name = "file_delete"
                                     THEN <<"Either 'filename' or 'match' must be provided.">>
                                     ELSE <<"Either 'filepath' or 'content' must be provided.">>),
                         "check"),
              lines |-> {}]
        ELSE IF StagesFile(q.name, a)
        THEN [q |-> [q EXCEPT !.pc = "write", !.staged = StagedPath(q.name, a, clock)],
              lines |-> {}]
        ELSE LET st == StartCoho(q, rev, cfg,
                                 IF rev = "exec" THEN QueryCommand(a, cfg)
                                 ELSE ToolArgs(q.name, a, cfg, NoPath),
                                 dir)
             IN  [q |-> st.q,
                  lines |-> st.lines \cup
                            (IF q.name = "query_collection"
                             THEN { <<"Querying collection: ", a.collection>> }
                             ELSE {})]

\* The CallTool handler from its start to its first await or its response.
CallTool(q0, name, arguments, rev, cfg, clock, dir) ==
    LET q == [q0 EXCEPT !.name = name, !.params = arguments]
        received == { <<"Received tools/call request for: ", name>> }
        missing == ConfigCheck(rev, cfg)
        projectLine ==
            IF cfg.projectId = "" \/ (rev = "execFile" /\ Blank(cfg.projectId))
            THEN { <<"CODEHOOKS_PROJECT_NAME is not set, so you need to supply the Agent with the project name">> }
            ELSE {}
    IN  IF missing = "project"
        THEN [q |-> Throw(q, McpError("InvalidRequest",
                        <<"Missing required configuration: CODEHOOKS_PROJECT_NAME must be set.">>),
                        "config"),
              lines |-> received \cup projectLine]
        ELSE IF missing = "token"
        THEN [q |-> Throw(q, McpError("InvalidRequest",
                        IF rev = "execFile"
                        THEN <<"Missing required configuration: CODEHOOKS_ADMIN_TOKEN must be set and not empty.">>
                        ELSE <<"Missing required configuration: CODEHOOKS_ADMIN_TOKEN">>),
                        "config"),
              lines |-> received \cup projectLine \cup
                        { <<"CODEHOOKS_ADMIN_TOKEN is not set, so you need to supply the Agent with the admin token">> }]
        ELSE IF ~ToolLookup(rev, name)
        THEN [q |-> Throw(q, McpError("MethodNotFound", <<"Tool not found">>), "lookup"),
              lines |-> received \cup projectLine
                        \cup { <<"Unknown tool requested: ", name>> }]
        ELSE IF ~SchemaParse(name, arguments)
        THEN [q |-> Fail(q, ZodError(<<"Required">>), "parse"),
              lines |-> received \cup projectLine]
        ELSE LET d == Dispatch([q EXCEPT !.args = arguments.val], rev, cfg, clock, dir)
             IN  [q |-> d.q, lines |-> received \cup projectLine \cup d.lines]

\* ------------------------------------------------------------------ inputs

Arguments(val) == [val |-> val, bad |-> {}]

\* The tool names requests carry ("nope" is in no catalog; set_project and
\* set_admin_token are the setup tools the README names) and, per name, the
\* arguments they carry.
RequestNames ==
    { "query_collection", "deploy_code", "file_upload", "file_delete", "add_schema",
      "import", "nope", "set_project", "set_admin_token" }

IndexJs == [path |-> "index.js", content |-> "code"]
PackageJson == [path |-> "package.json", content |-> MineText]

ArgChoices(name) ==
    CASE name = "query_collection" ->
            { Arguments([collection |-> "users"]),
              Arguments([collection |-> "users", csv |-> TRUE]),
              [val |-> NoArgs, bad |-> {"collection"}] }
      [] name = "deploy_code" ->
            { Arguments([files |-> <<IndexJs>>]),
              Arguments([files |-> <<PackageJson>>, projectId |-> "other"]),
              Arguments(NoArgs) }
      [] name = "file_upload" ->
            { Arguments([target |-> "a/x.txt", content |-> "hi"]),
              Arguments([target |-> "b/x.txt", content |-> "aGk=", encoding |-> "base64"]),
              Arguments([content |-> "hi"]) }
      [] name = "file_delete" ->
            { Arguments([filename |-> "old.txt"]), Arguments(NoArgs) }
      [] name = "add_schema" ->
            { Arguments([collection |-> "users", schema |-> "{}"]),
              Arguments([collection |-> "users"]) }
      [] name = "import" ->
            { Arguments([collection |-> "users", content |-> "[]"]),
              Arguments([collection |-> "users", filepath |-> "/data/in.json"]),
              Arguments([collection |-> "users"]),
              [val |-> [collection |-> "users"], bad |-> {"content"}] }
      [] name = "set_project" -> { Arguments([project |-> "other", space |-> "prod"]) }
      [] name = "set_admin_token" -> { Arguments([token |-> "new"]) }
      [] OTHER -> { Arguments(NoArgs) }

\* How a write to the filesystem can end: done, failed with nothing written,
\* failed with the file created and part of the content in it.
WriteOutcomes == { "ok", "none", "partial" }

\* ----------------------------------------------------------------- actions

Init ==
    /\ revision \in { "execFile", "exec" }
    /\ \E name \in EnvProjects, space \in EnvSpaces, token \in EnvTokens :
          /\ container = NodeStarted(Environment(name, "", space, token))
          /\ config = ServerConfig(container.env)
    /\ now = 0
    /\ fs = [p \in {} |-> [owner |-> 0, kind |-> "file", content |-> ""]]
    /\ cwd = AppDir
    /\ nextTmp = 1
    /\ req = [r \in Requests |-> IdleReq]
    /\ log = {}

\* Date.now() moves on (it is read when a request arrives, so the clock is
\* followed until the last request has arrived).
Tick ==
    /\ container.pc = "node"
    /\ now < MaxClock
    /\ \E r \in Requests : req[r].pc = "idle"
    /\ now' = now + 1
    /\ UNCHANGED <<revision, config, fs, cwd, nextTmp, req, log, container>>

\* A tools/call request arrives (requests arrive in the order of their
\* numbers) and its handler runs to its first await or to its response.
\* A handler that keeps the project and space a request names as the
\* configuration of the requests after it.
ReceiveStoringOverrides(r, name, arguments) ==
    /\ container.pc = "node"
    /\ req[r].pc = "idle"
    /\ \A s \in Requests : s < r => req[s].pc # "idle"
    /\ LET h == CallTool(req[r], name, arguments, revision, config, now, cwd)
           a == arguments.val
       IN  /\ req' = [req EXCEPT ![r] = Observe(h.q, fs)]
           /\ log' = log \cup Lines(r, h.lines)
           /\ config' = [config EXCEPT
                            !.projectId = IF "projectId" \in DOMAIN a THEN a.projectId
                                          ELSE IF "project" \in DOMAIN a THEN a.project
                                          ELSE @,
                            !.space = IF "spaceId" \in DOMAIN a THEN a.spaceId ELSE @]
    /\ UNCHANGED <<revision, now, fs, cwd, nextTmp, container>>
Receive(r, name, arguments) ==
    /\ container.pc = "node"
    /\ req[r].pc = "idle"
    /\ \A s \in Requests : s < r => req[s].pc # "idle"
    /\ LET h == CallTool(req[r], name, arguments, revision, config, now, cwd)
       IN  /\ req' = [req EXCEPT ![r] = Observe(h.q, fs)]
           /\ log' = log \cup Lines(r, h.lines)
    /\ UNCHANGED <<revision, config, now, fs, cwd, nextTmp, container>>

\* The catch of file_upload, add_schema and import: unlink the staged file if
\* there is one (errors ignored), then throw the error on.  (Before it, a
\* catch that throws the error on at once.)
CatchStagedWithoutCleanup(q, err, at) ==
    [q EXCEPT !.pc = "done", !.err = err, !.failedAt = at, !.resp = OuterCatch(err)]
CatchStaged(q, err, at) ==
    IF q.staged # NoPath
    THEN [q EXCEPT !.pc = "cleanup", !.err = err, !.failedAt = at]
    ELSE Fail(q, err, at)

\* await fs.writeFile(staged path, content) of file_upload, add_schema and
\* import ends; on success the handler calls executeCohoCommand.  (Before it,
\* a handler that calls executeCohoCommand without waiting for the write.)
WriteDoneStartingEarly(r, how) ==
    /\ req[r].pc = "write"
    /\ LET q == req[r]
           written == WriteTo(fs, q.staged, r, "file",
                              IF how = "ok" THEN StagedContent(q.name, q.args) ELSE "")
           st == StartCoho(q, revision, config,
                           ToolArgs(q.name, q.args, config, q.staged), cwd)
       IN  /\ fs' = IF how = "none" THEN fs ELSE written
           /\ req' = [req EXCEPT ![r] = st.q]
           /\ log' = log \cup Lines(r, st.lines)
    /\ UNCHANGED <<revision, config, now, cwd, nextTmp, container>>
WriteDone(r, how) ==
    /\ req[r].pc = "write"
    /\ LET q == req[r]
           written == WriteTo(fs, q.staged, r, "file",
                              IF how = "ok" THEN StagedContent(q.name, q.args) ELSE "")
           st == StartCoho(q, revision, config,
                           ToolArgs(q.name, q.args, config, q.staged), cwd)
       IN  /\ fs' = IF how = "none" THEN fs ELSE written
           /\ req' = [req EXCEPT ![r] =
                        IF how = "ok" THEN st.q
                        ELSE Observe(CatchStaged(q,
                                         Error(<<"ENOSPC: no space left on device, write">>),
                                         "write"),
                                     fs')]
           /\ log' = IF how = "ok" THEN log \cup Lines(r, st.lines) ELSE log
    /\ UNCHANGED <<revision, config, now, cwd, nextTmp, container>>

\* JSON.parse(result) succeeds, and JSON.stringify(JSON.parse(result), null, 2).
JsonParses(text) == text = <<"[1]">>
JsonPretty(text) == IF text = <<"[1]">> THEN <<"[\n  1\n]">> ELSE text

\* query_collection after executeCohoCommand returned result.
QueryResult(q, rev, result) ==
    IF \/ TruthyBool(q.args, "csv")
       \/ rev = "execFile" /\ TruthyBool(q.args, "jsonl")
       \/ rev = "exec" /\ (TruthyBool(q.args, "table") \/ TruthyBool(q.args, "pretty"))
    THEN Return(q, result)
    ELSE IF JsonParses(result)
    THEN Return(q, JsonPretty(result))
    ELSE Fail(q, Error(<<"Unexpected token in JSON at position 0">>), "json")

\* The subprocess of executeCohoCommand ends and the tool's case goes on.
CohoDone(r, out) ==
    /\ req[r].pc = "coho"
    /\ LET q == Ended(req[r], out)
           p == q.spawned[Len(q.spawned)]
           e == ExecuteCohoCommand(revision, config, p, out)
       IN  /\ out.kind = "timeout" => p.timeout > 0
           /\ req' = [req EXCEPT ![r] =
                        Observe(IF ~e.ok THEN CatchStaged(q, e.err, "coho")
                                ELSE IF q.staged # NoPath
                                THEN [q EXCEPT !.pc = "unlink", !.result = e.value]
                                ELSE IF q.name = "query_collection"
                                THEN QueryResult(q, revision, e.value)
                                ELSE Return(q, e.value),
                                fs)]
           /\ log' = log \cup Lines(r, e.lines)
    /\ UNCHANGED <<revision, config, now, fs, cwd, nextTmp, container>>

\* await fs.unlink(staged path) after a successful command ends: the file is
\* gone and the result is returned, or there was no file (ENOENT) and the
\* catch runs.
UnlinkDone(r) ==
    /\ req[r].pc = "unlink"
    /\ LET q == req[r]
       IN  /\ fs' = Remove(fs, q.staged)
           /\ req' = [req EXCEPT ![r] =
                        Observe(IF q.staged \in DOMAIN fs
                                THEN Return(q, q.result)
                                ELSE CatchStaged(q,
                                         Error(<<"ENOENT: no such file or directory, unlink">>),
                                         "unlink"),
                                fs')]
    /\ UNCHANGED <<revision, config, now, cwd, nextTmp, log, container>>

\* await fs.unlink(staged path) of the catch ends (its own error is ignored)
\* and the error is thrown on.
CleanupDone(r) ==
    /\ req[r].pc = "cleanup"
    /\ fs' = Remove(fs, req[r].staged)
    /\ req' = [req EXCEPT ![r] = Observe(Fail(req[r], req[r].err, req[r].failedAt), fs')]
    /\ UNCHANGED <<revision, config, now, cwd, nextTmp, log, container>>

\* ------------------------------------------------------------ deploy_code

\* The directory fs.mkdtemp('/tmp/codehooks-deploy-') creates: a name no
\* earlier call was given.
TmpDir(n) == <<"/tmp/codehooks-deploy-", ToString(n)>>

\* A catch that removes the staging directory, as the catches of the other
\* file-bearing tools remove their file.
CatchDeployWithCleanup(q, err, at, files) ==
    [q |-> Fail(q, err, at),
     fs |-> [p \in DOMAIN files \ {q.staged} |-> files[p]],
     lines |-> { <<"Deployment failed. Temporary directory ">> \o q.staged
                 \o <<" preserved for inspection.">>,
                 <<"Error: ">> \o err.msg }]

\* The catch of deploy_code: the directory is left in place, two lines are
\* logged and the error is thrown on.
CatchDeploy(q, err, at, files) ==
    [q |-> Fail(q, err, at),
     fs |-> files,
     lines |-> { <<"Deployment failed. Temporary directory ">> \o q.staged
                 \o <<" preserved for inspection.">>,
                 <<"Error: ">> \o err.msg }]

\* The loop that writes filesToDeploy: the handler is about to write file i,
\* or, after the last one, has logged the directory (ls -la) and started
\* npm install in it.
NpmProcess(rev, dir) ==
    IF rev = "execFile"
    THEN [file |-> "npm", argv |-> << <<"install">> >>, shell |-> FALSE, timeout |-> 0,
          cwd |-> dir, ended |-> "no", site |-> "deploy_code"]
    ELSE [file |-> "/bin/sh", argv |-> << <<"npm", " ", "install">> >>, shell |-> TRUE,
          timeout |-> 0, cwd |-> dir, ended |-> "no", site |-> "deploy_code"]

WriteNext(q, i, rev) ==
    IF i <= Len(q.files)
    THEN [q |-> [q EXCEPT !.pc = "deployWrite", !.idx = i],
          lines |-> { <<"Writing file: ">>
                      \o (IF Escapes(q.files[i].path) THEN OutsidePath(q.files[i].path)
                          ELSE q.staged \o <<"/", PathJoin(q.files[i].path)>>) }]
    ELSE [q |-> [q EXCEPT !.pc = "npm", !.spawned = Append(@, NpmProcess(rev, q.staged))],
          lines |-> { <<"Directory contents before npm install:">>,
                      <<"Installing dependencies...">> }]

\* await fs.mkdtemp(...) ends.  It is called before the try block of
\* deploy_code, so its error goes to the catch of the handler.
MkdtempDone(r, ok) ==
    /\ req[r].pc = "mkdtemp"
    /\ LET q == [req[r] EXCEPT !.staged = TmpDir(nextTmp)]
           w == WriteNext(q, 1, revision)
       IN  IF ok
           THEN /\ fs' = WriteTo(fs, q.staged, r, "dir", <<>>)
                /\ nextTmp' = nextTmp + 1
                /\ req' = [req EXCEPT ![r] = w.q]
                /\ log' = log \cup Lines(r, w.lines \cup
                                { <<"Created temporary directory: ">> \o q.staged })
           ELSE /\ req' = [req EXCEPT ![r] =
                             Fail(req[r], Error(<<"EACCES: permission denied, mkdtemp">>),
                                  "mkdtemp")]
                /\ UNCHANGED <<fs, nextTmp, log>>
    /\ UNCHANGED <<revision, config, now, cwd, container>>

\* await fs.mkdir(dirname) and await fs.writeFile(filePath, ...) of file idx
\* end (one step: the directory is the request's own).
DeployWriteDone(r, ok) ==
    /\ req[r].pc = "deployWrite"
    /\ LET q == req[r]
           w == WriteNext(q, q.idx + 1, revision)
           c == CatchDeploy(q, Error(<<"ENOSPC: no space left on device, write">>), "write",
                            fs)
           file == q.files[q.idx]
           written == WrittenFile(file, q.args, config)
       IN  IF ok
           THEN /\ fs' = IF Escapes(file.path)
                            THEN WriteTo(fs, OutsidePath(file.path), r, "file",
                                         written.text)
                            ELSE WriteTo(fs, q.staged, r, "dir",
                                         (PathJoin(file.path) :> written.text)
                                         @@ fs[q.staged].content)
                /\ req' = [req EXCEPT ![r] = w.q]
                /\ log' = log \cup Lines(r, w.lines \cup written.lines)
           ELSE /\ fs' = c.fs
                /\ req' = [req EXCEPT ![r] = Observe(c.q, fs')]
                /\ log' = log \cup Lines(r, c.lines)
    /\ UNCHANGED <<revision, config, now, cwd, nextTmp, container>>

\* The deploy command line: '--admintoken', config.adminToken is put into it
\* by the handler; the execFile revision runs an argument vector, the exec
\* revision a shell command string.  Neither sets a timeout.
DeployProcess(rev, cfg, a, dir) ==
    LET project == IF TruthyStr(a, "projectId") THEN a.projectId ELSE cfg.projectId
        space == IF TruthyStr(a, "spaceId") THEN a.spaceId ELSE cfg.space
        main == IF Has(a, "main") THEN a.main ELSE "index"
    IN  IF rev = "execFile"
        THEN [file |-> "coho",
              argv |-> << <<"deploy">>, <<"--projectname">>, <<project>>, <<"--space">>,
                          <<space>>, <<"--main">>, <<main>>, <<"--admintoken">>,
                          cfg.adminToken >> \o OptBool(a, "json", "--json"),
              shell |-> FALSE, timeout |-> 0, cwd |-> dir, ended |-> "no",
              site |-> "deploy_code"]
        ELSE [file |-> "/bin/sh",
              argv |-> << <<"coho", " ", "deploy", " ", "--projectname", " ", project, " ",
                            "--space", " ", space, " ", "--main", " ", main, " ",
                            "--admintoken", " ">> \o cfg.adminToken
                          \o (IF TruthyBool(a, "json") THEN <<" ", "--json">> ELSE <<>>) >>,
              shell |-> TRUE, timeout |-> 0, cwd |-> dir, ended |-> "no",
              site |-> "deploy_code"]

\* The loop that logs the files before deployment: the handler is about to
\* read file i, or, after the last one, has started coho deploy in the
\* working directory of the process.
ReadNext(q, i, rev, cfg, dir) ==
    IF i <= Len(q.files)
    THEN [q |-> [q EXCEPT !.pc = "readFile", !.idx = i],
          lines |-> { <<"=== ", q.files[i].path, " ===">> }]
    ELSE [q |-> [q EXCEPT !.pc = "deploy",
                          !.spawned = Append(@, DeployProcess(rev, cfg, q.args, dir))],
          lines |-> { <<"Executing deploy command...">> }]

\* The catch around npm install runs (and throws an McpError); before it, a
\* catch that never runs.
NpmFailedNever(out) == out.kind # out.kind
NpmFailed(out) == out.kind # "ok"

\* npm install ends.  On success the handler reads process.cwd(), changes the
\* working directory to its staging directory and goes on to log the files.
NpmDone(r, out) ==
    /\ req[r].pc = "npm"
    /\ out.kind # "timeout"
    /\ LET q == Ended(req[r], out)
           p == q.spawned[Len(q.spawned)]
           failed == CatchDeploy(q, McpError("InvalidRequest",
                                     <<"Failed to install dependencies: ">>
                                     \o ErrorMessage(p, out)), "npm", fs)
           nocwd == CatchDeploy(q, Error(<<"ENOENT: no such file or directory, uv_cwd">>),
                                "cwd", fs)
           rd == ReadNext([q EXCEPT !.origCwd = cwd], 1, revision, config, q.staged)
       IN  IF NpmFailed(out)
           THEN /\ fs' = failed.fs
                /\ req' = [req EXCEPT ![r] = Observe(failed.q, fs')]
                /\ log' = log \cup Lines(r, failed.lines \cup
                                { <<"npm install error: ">> \o ErrorMessage(p, out) })
                /\ UNCHANGED cwd
           ELSE IF ~Exists(cwd, fs)
           THEN /\ fs' = nocwd.fs
                /\ req' = [req EXCEPT ![r] = Observe(nocwd.q, fs')]
                /\ log' = log \cup Lines(r, nocwd.lines)
                /\ UNCHANGED cwd
           ELSE /\ cwd' = q.staged
                /\ UNCHANGED fs
                /\ req' = [req EXCEPT ![r] = rd.q]
                /\ log' = log \cup Lines(r, rd.lines \cup
                                { <<"Changed working directory to: ">> \o q.staged })
    /\ UNCHANGED <<revision, config, now, nextTmp, container>>

\* await fs.readFile(path.join(tmpDir, file.path)) of file idx ends.
ReadDone(r) ==
    /\ req[r].pc = "readFile"
    /\ LET rd == ReadNext(req[r], req[r].idx + 1, revision, config, cwd)
       IN  /\ req' = [req EXCEPT ![r] = rd.q]
           /\ log' = log \cup Lines(r, rd.lines)
    /\ UNCHANGED <<revision, config, now, fs, cwd, nextTmp, container>>

\* The finally of deploy_code: process.chdir(originalCwd), which throws when
\* that directory is gone; the error then replaces the pending one.
Restore(q, files) ==
    IF Exists(q.origCwd, files)
    THEN [ok |-> TRUE, lines |-> { <<"Restored working directory to: ">> \o q.origCwd }]
    ELSE [ok |-> FALSE, lines |-> {}]

ChdirError == Error(<<"ENOENT: no such file or directory, chdir">>)

\* coho deploy ends.  On success the handler removes its staging directory;
\* on failure the finally and the catch run.
DeployDone(r, out) ==
    /\ req[r].pc = "deploy"
    /\ out.kind # "timeout"
    /\ LET q == Ended(req[r], out)
           p == q.spawned[Len(q.spawned)]
           back == Restore(q, fs)
           c == CatchDeploy(q, IF back.ok THEN Error(ErrorMessage(p, out)) ELSE ChdirError,
                            "deploy", fs)
           text == IF out.stdout # <<>> THEN out.stdout
                   ELSE IF out.stderr # <<>> THEN out.stderr
                   ELSE <<"Deployment successful">>
       IN  IF out.kind = "ok"
           THEN /\ req' = [req EXCEPT ![r] = [q EXCEPT !.pc = "rm", !.result = text]]
                /\ log' = log \cup Lines(r, { <<"Deploy stdout: ">> \o out.stdout })
                /\ UNCHANGED <<fs, cwd>>
           ELSE /\ fs' = c.fs
                /\ req' = [req EXCEPT ![r] = Observe(c.q, fs')]
                /\ log' = log \cup Lines(r, back.lines \cup c.lines)
                /\ cwd' = IF back.ok THEN q.origCwd ELSE cwd
    /\ UNCHANGED <<revision, config, now, nextTmp, container>>

\* await fs.rm(tmpDir, { recursive: true, force: true }) ends; the handler
\* returns its payload through the finally.
RmDone(r) ==
    /\ req[r].pc = "rm"
    /\ LET q == req[r]
           removed == Remove(fs, q.staged)
           back == Restore(q, removed)
           c == CatchDeploy(q, ChdirError, "restore", removed)
       IN  /\ fs' = IF back.ok THEN removed ELSE c.fs
           /\ req' = [req EXCEPT ![r] =
                        Observe(IF back.ok THEN Return(q, q.result) ELSE c.q, fs')]
           /\ log' = log \cup Lines(r, { <<"Cleaned up temporary directory: ">> \o q.staged }
                                       \cup back.lines
                                       \cup (IF back.ok THEN {} ELSE c.lines))
           /\ cwd' = IF back.ok THEN q.origCwd ELSE cwd
    /\ UNCHANGED <<revision, config, now, nextTmp, container>>

Next ==
    \/ Tick
    \/ \E r \in Requests, name \in RequestNames :
         \E arguments \in ArgChoices(name) : Receive(r, name, arguments)
    \/ \E r \in Requests, how \in WriteOutcomes : WriteDone(r, how)
    \/ \E r \in Requests, out \in Outcomes : CohoDone(r, out)
    \/ \E r \in Requests : UnlinkDone(r)
    \/ \E r \in Requests : CleanupDone(r)
    \/ \E r \in Requests, ok \in BOOLEAN : MkdtempDone(r, ok)
    \/ \E r \in Requests, ok \in BOOLEAN : DeployWriteDone(r, ok)
    \/ \E r \in Requests, out \in Outcomes : NpmDone(r, out)
    \/ \E r \in Requests : ReadDone(r)
    \/ \E r \in Requests, out \in Outcomes : DeployDone(r, out)
    \/ \E r \in Requests : RmDone(r)

Spec == Init /\ [][Next]_vars

\* ------------------------------------------------- one request, all tools

\* A server that receives one request: any tool of either catalog with
\* arguments that exercise its options, values with shell characters in
\* them, and commands that print text that is not JSON.
AllNames == ToolsExecFile \cup RequestNames

DotPackageJson == [path |-> "./package.json", content |-> MineText]
AbsoluteJs == [path |-> "/abs.js", content |-> "code"]
DotDotTxt == [path |-> "../x.txt", content |-> "hi"]
FullPackageJson == [path |-> "package.json", content |-> FullText]
BadPackageJson == [path |-> "package.json", content |-> "not json"]

WideArgs(name) ==
    CASE name = "query_collection" ->
            ArgChoices(name) \cup
            { Arguments([collection |-> "users", count |-> TRUE]),
              Arguments([collection |-> "users", count |-> FALSE]),
              Arguments([collection |-> "users", limit |-> 5]),
              Arguments([collection |-> "users", limit |-> 0]),
              Arguments([collection |-> "users", count |-> TRUE, limit |-> 5]),
              Arguments([collection |-> "a b"]),
              Arguments([collection |-> "x;id", count |-> TRUE]),
              Arguments([collection |-> "users --limit 5", count |-> TRUE]),
              Arguments([collection |-> "users", query |-> "{'a':1}"]) }
      [] name = "deploy_code" ->
            ArgChoices(name) \cup
            { Arguments([files |-> <<IndexJs, PackageJson>>, main |-> "app"]),
              Arguments([files |-> <<DotPackageJson>>]),
              Arguments([files |-> <<AbsoluteJs, PackageJson>>]),
              Arguments([files |-> <<IndexJs, DotDotTxt>>]),
              Arguments([files |-> <<IndexJs, FullPackageJson>>, projectId |-> "other"]),
              Arguments([files |-> <<BadPackageJson>>, spaceId |-> "prod", json |-> TRUE]) }
      [] name = "file_list" -> { Arguments(NoArgs), Arguments([path |-> "a b"]) }
      [] name \in { "create_index", "drop_index" } ->
            { Arguments([collection |-> "users", index |-> "x;id"]) }
      [] name \in { "create_collection", "drop_collection", "remove_schema",
                    "uncap_collection" } ->
            { Arguments([collection |-> "a b"]) }
      [] name = "cap_collection" -> { Arguments([collection |-> "users", cap |-> 5]) }
      [] name = "export" ->
            { Arguments([collection |-> "users", filepath |-> "a b", jsonl |-> TRUE]) }
      [] name = "kv_get" -> { Arguments(NoArgs), Arguments([key |-> "a b", text |-> TRUE]) }
      [] name = "kv_set" ->
            { Arguments([key |-> "k1", val |-> "a b", ttl |-> 5, keyspace |-> "x;id"]) }
      [] name = "kv_del" -> { Arguments([key |-> "x;id", json |-> TRUE]) }
      [] name = "logs" ->
            { Arguments(NoArgs), Arguments([tail |-> 5, follow |-> TRUE, context |-> "a b"]) }
      [] name = "collection" ->
            { Arguments(NoArgs), Arguments([project |-> "other", sys |-> TRUE]) }
      [] OTHER -> ArgChoices(name)

\* Commands also succeed with output that is not JSON, on stdout or on
\* stderr alone.
WideOutcomes ==
    Outcomes \cup { [kind |-> "ok", stdout |-> <<"2 items">>, stderr |-> <<>>],
                    [kind |-> "ok", stdout |-> <<>>, stderr |-> <<"warn">>] }

NextOne ==
    \/ Tick
    \/ \E name \in AllNames : \E arguments \in WideArgs(name) : Receive(1, name, arguments)
    \/ \E r \in Requests, how \in WriteOutcomes : WriteDone(r, how)
    \/ \E r \in Requests, out \in WideOutcomes : CohoDone(r, out)
    \/ \E r \in Requests : UnlinkDone(r)
    \/ \E r \in Requests : CleanupDone(r)
    \/ \E r \in Requests, ok \in BOOLEAN : MkdtempDone(r, ok)
    \/ \E r \in Requests, ok \in BOOLEAN : DeployWriteDone(r, ok)
    \/ \E r \in Requests, out \in WideOutcomes : NpmDone(r, out)
    \/ \E r \in Requests : ReadDone(r)
    \/ \E r \in Requests, out \in WideOutcomes : DeployDone(r, out)
    \/ \E r \in Requests : RmDone(r)

SpecOne == Init /\ [][NextOne]_vars

\* ------------------------------------------------------- container start

\* The environments a container is run with: each variable given or not
\* (the image sets CODEHOOKS_SPACE=dev unless the run overrides it).
ContainerEnvs ==
    { Environment(name, id, space, token) :
        name \in EnvProjects, id \in EnvProjects, space \in { "", "dev", "prod" },
        token \in EnvTokens }

\* The first [ -z "$VAR" ] test of docker-entrypoint.sh that succeeds.
MissingVariable(env) ==
    IF env.CODEHOOKS_PROJECT_ID = "" THEN "CODEHOOKS_PROJECT_ID"
    ELSE IF env.CODEHOOKS_ADMIN_TOKEN = <<>> THEN "CODEHOOKS_ADMIN_TOKEN"
    ELSE IF env.CODEHOOKS_SPACE = "" THEN "CODEHOOKS_SPACE"
    ELSE "none"

\* The container starts at its ENTRYPOINT; the server has read nothing yet.
InitContainer ==
    /\ revision \in { "execFile", "exec" }
    /\ \E env \in ContainerEnvs :
          container = [pc |-> "entrypoint", env |-> env, stdout |-> <<>>]
    /\ config = ServerConfig(Environment("", "", "", <<>>))
    /\ now = 0
    /\ fs = [p \in {} |-> [owner |-> 0, kind |-> "file", content |-> ""]]
    /\ cwd = AppDir
    /\ nextTmp = 1
    /\ req = [r \in Requests |-> IdleReq]
    /\ log = {}

\* docker-entrypoint.sh runs: exit 1 at the first variable that is empty,
\* otherwise exec node build/index.js, which reads its configuration.
Entrypoint ==
    /\ container.pc = "entrypoint"
    /\ LET missing == MissingVariable(container.env)
       IN  IF missing # "none"
           THEN /\ container' =
                     [container EXCEPT
                        !.pc = "exited",
                        !.stdout = << <<"Error: ", missing,
                                       " environment variable is required">> >>]
                /\ UNCHANGED config
           ELSE /\ container' = [container EXCEPT
                                   !.pc = "node",
                                   !.stdout = << <<"Starting MCP server...">> >>]
                /\ config' = ServerConfig(container.env)
    /\ UNCHANGED <<revision, now, fs, cwd, nextTmp, req, log>>

NextContainer ==
    \/ Entrypoint
    \/ Tick
    \/ \E name \in AllNames : \E arguments \in WideArgs(name) : Receive(1, name, arguments)
    \/ \E r \in Requests, how \in WriteOutcomes : WriteDone(r, how)
    \/ \E r \in Requests, out \in WideOutcomes : CohoDone(r, out)
    \/ \E r \in Requests : UnlinkDone(r)
    \/ \E r \in Requests : CleanupDone(r)
    \/ \E r \in Requests, ok \in BOOLEAN : MkdtempDone(r, ok)
    \/ \E r \in Requests, ok \in BOOLEAN : DeployWriteDone(r, ok)
    \/ \E r \in Requests, out \in WideOutcomes : NpmDone(r, out)
    \/ \E r \in Requests : ReadDone(r)
    \/ \E r \in Requests, out \in WideOutcomes : DeployDone(r, out)
    \/ \E r \in Requests : RmDone(r)

SpecContainer == InitContainer /\ [][NextContainer]_vars

\* ------------------------------------------------------------------ claims

Done(r) == req[r].pc = "done"
Faulted(r) == Done(r) /\ req[r].resp.kind = "fault"
ErrorPayload(r) == Done(r) /\ req[r].resp.kind = "payload" /\ req[r].resp.isError
Succeeded(r) == Done(r) /\ req[r].resp.kind = "payload" /\ ~req[r].resp.isError
TokenSet == config.adminToken # <<>>

\* C1 (as stated): once a token is configured, no response text and no log
\* line contains the token; wherever it would appear the mask *** stands.
C1_TokenNeverObservable ==
    TokenSet =>
        /\ \A l \in log : ~Contains(l.text, config.adminToken)
        /\ \A r \in Requests : ~Contains(req[r].resp.text, config.adminToken)

\* C2 (as stated): a request that fails after its tool was found (a command
\* that exits non-zero, cannot start or times out, a staging write, a
\* pre-check, an unparsable result) ends as a payload marked isError, never
\* as a transport-level fault.
C2_FailuresAreErrorPayloads ==
    \A r \in Requests :
        (Done(r) /\ req[r].failedAt \notin { "", "config", "lookup" }) => ErrorPayload(r)

\* What a request has touched: the subprocesses it started, the path it
\* staged, the filesystem entries it wrote.
Untouched(r) ==
    /\ req[r].spawned = <<>>
    /\ req[r].staged = NoPath
    /\ \A p \in DOMAIN fs : fs[p].owner # r

\* The request's arguments miss a field the tool's schema requires or carry a
\* field of the wrong type.
Malformed(r) ==
    \/ RequiredFields(req[r].name) \ DOMAIN req[r].params.val # {}
    \/ req[r].params.bad \cap SchemaFields(req[r].name) # {}

ConfigPresent == config.projectId # "" /\ config.adminToken # <<>>

\* C3: with configuration present and the tool in the catalog, arguments that
\* violate the tool's schema end the request with an isError payload whose
\* text begins "Invalid arguments: "; the request starts no subprocess and
\* stages nothing.
C3_SchemaRejection ==
    \A r \in Requests :
        (Done(r) /\ ConfigPresent /\ req[r].name \in Tools(revision) /\ Malformed(r))
        => /\ ErrorPayload(r)
           /\ Head(req[r].resp.text) = "Invalid arguments: "
           /\ Untouched(r)

\* A malformed request was rejected and the request after it was served.
C3_Witness ==
    /\ ConfigPresent /\ Done(1) /\ req[1].name \in Tools(revision) /\ Malformed(1)
    /\ ErrorPayload(1)
    /\ Succeeded(2)

\* C4 (as stated): with the project identifier or the token missing, every
\* request fails with a fault that names the missing configuration, and no
\* subprocess is started and nothing is staged.
C4_MissingConfigurationFaults ==
    \A r \in Requests :
        (Done(r) /\ ~ConfigPresent)
        => /\ Faulted(r)
           /\ Head(req[r].resp.text) \in
                  { "Missing required configuration: CODEHOOKS_PROJECT_NAME must be set.",
                    "Missing required configuration: CODEHOOKS_ADMIN_TOKEN must be set and not empty.",
                    "Missing required configuration: CODEHOOKS_ADMIN_TOKEN" }
           /\ Untouched(r)

\* C5: with configuration present, a request that names a tool outside the
\* catalog ends with the protocol fault MethodNotFound, not with an isError
\* payload, and touches nothing.
C5_UnknownToolFault ==
    \A r \in Requests :
        (Done(r) /\ ConfigCheck(revision, config) = "none"
                 /\ req[r].name \notin Tools(revision))
        => /\ Faulted(r)
           /\ req[r].resp.code = "MethodNotFound"
           /\ req[r].resp.text = <<"Tool not found">>
           /\ Untouched(r)

\* An unknown tool was asked for in each revision's sense: a name in no
\* catalog, answered with the fault.
C5_Witness ==
    /\ ConfigPresent
    /\ \E r \in Requests : Done(r) /\ req[r].name = "nope" /\ Faulted(r)

InFlight(r) == req[r].pc \notin { "idle", "done" }
Staged(r) == req[r].staged # NoPath
FileTools == { "file_upload", "add_schema", "import" }

\* C6 (as stated): two requests in flight at the same time never use the same
\* staged path.
C6_StagedPathsDistinct ==
    \A r1, r2 \in Requests :
        (r1 # r2 /\ InFlight(r1) /\ InFlight(r2) /\ Staged(r1) /\ Staged(r2))
        => req[r1].staged # req[r2].staged

\* C7: when a file-bearing call (deploy_code, file_upload, add_schema, import
\* with content) produces its successful payload, the path it staged does not
\* exist; the directory of a successful deploy_code never exists again.
C7_CleanupOnSuccess ==
    \A r \in Requests :
        (Succeeded(r) /\ Staged(r))
        => /\ ~req[r].leftover
           /\ req[r].name = "deploy_code" => req[r].staged \notin DOMAIN fs

\* A deploy_code call and a call that staged a file have both succeeded.
C7_Witness ==
    \E r1, r2 \in Requests :
        /\ Succeeded(r1) /\ req[r1].name = "deploy_code" /\ Staged(r1)
        /\ Succeeded(r2) /\ req[r2].name \in FileTools /\ Staged(r2)

\* C8: a deploy_code call that failed while writing a file, in npm install or
\* in coho deploy leaves its staging directory in place.
C8_PreservedOnDeployFailure ==
    \A r \in Requests :
        (Done(r) /\ req[r].name = "deploy_code"
                 /\ req[r].failedAt \in { "write", "npm", "deploy" })
        => /\ ~Succeeded(r)
           /\ req[r].leftover
           /\ req[r].staged \in DOMAIN fs
           /\ fs[req[r].staged].kind = "dir"

\* One deploy_code call failed in coho deploy, another in npm install or in
\* a write.
C8_Witness ==
    \E r1, r2 \in Requests :
        /\ Done(r1) /\ req[r1].name = "deploy_code" /\ req[r1].failedAt = "deploy"
        /\ Done(r2) /\ req[r2].name = "deploy_code" /\ req[r2].failedAt \in { "write", "npm" }

\* C9: when a file_upload, add_schema or import call that staged a file ends
\* in failure (the staging write failed, or the command failed), the file it
\* staged does not exist.
C9_CleanupOnFailure ==
    \A r \in Requests :
        (Done(r) /\ ~Succeeded(r) /\ req[r].name \in FileTools /\ Staged(r))
        => ~req[r].leftover

\* One such call failed in its command, another in its staging write after
\* part of the file was written.
C9_Witness ==
    \E r1, r2 \in Requests :
        /\ Done(r1) /\ req[r1].name \in FileTools /\ req[r1].failedAt = "coho" /\ Staged(r1)
        /\ Done(r2) /\ req[r2].name \in FileTools /\ req[r2].failedAt = "write" /\ Staged(r2)

IsNpmInstall(p) ==
    \/ ~p.shell /\ p.file = "npm" /\ p.argv = << <<"install">> >>
    \/ p.shell /\ p.argv = << <<"npm", " ", "install">> >>
IsCohoDeploy(p) ==
    \/ ~p.shell /\ p.file = "coho" /\ Head(p.argv) = <<"deploy">>
    \/ p.shell /\ SubSeq(Head(p.argv), 1, 3) = <<"coho", " ", "deploy">>

\* C10: in a deploy_code request coho deploy is started only after npm
\* install, run in the request's staging directory, has ended successfully;
\* when npm install fails no coho deploy is started for the request and the
\* request ends in failure, reporting the failed installation.
C10_DeployOrdering ==
    \A r \in Requests :
        LET s == req[r].spawned
        IN  /\ \A i \in 1..Len(s) :
                   IsCohoDeploy(s[i]) =>
                       \E j \in 1..(i - 1) : /\ IsNpmInstall(s[j])
                                              /\ s[j].ended = "ok"
                                              /\ s[j].cwd = req[r].staged
            /\ \A j \in 1..Len(s) :
                   (IsNpmInstall(s[j]) /\ s[j].ended \notin { "no", "ok" })
                   => /\ \A i \in 1..Len(s) : ~IsCohoDeploy(s[i])
                      /\ Done(r) /\ ~Succeeded(r)
                      /\ Head(req[r].resp.text) = "Failed to install dependencies: "

\* One request has started coho deploy, in another npm install has failed.
C10_Witness ==
    \E r1, r2 \in Requests :
        /\ \E i \in 1..Len(req[r1].spawned) : IsCohoDeploy(req[r1].spawned[i])
        /\ \E j \in 1..Len(req[r2].spawned) :
               IsNpmInstall(req[r2].spawned[j]) /\ req[r2].spawned[j].ended = "exit"

\* C11 (as stated): every subprocess started for a request runs under the
\* two-minute timeout, so that a program that never exits cannot keep the
\* request from its response.
C11_EverySubprocessBounded ==
    \A r \in Requests :
        \A i \in 1..Len(req[r].spawned) : req[r].spawned[i].timeout = TimeoutMs

\* The argument vector the coho program of subprocess p is started with.
CohoArgv(p) == Tail(Head(Programs(p)))

HasPair(argv, flag, val) ==
    \E i \in 1..(Len(argv) - 1) : argv[i] = flag /\ argv[i + 1] = val
HasArg(argv, flag) == \E i \in 1..Len(argv) : argv[i] = flag

\* C12 (as stated): the argument vector of a query_collection call without limit
\* and without count contains '--limit' followed by '100', and the argument
\* vector of a call with count=true and no limit contains no '--limit'.
C12_DefaultLimit ==
    \A r \in Requests :
        \A i \in 1..Len(req[r].spawned) :
            LET a == req[r].args
                argv == CohoArgv(req[r].spawned[i])
            IN  req[r].name = "query_collection" =>
                    /\ (~Has(a, "limit") /\ ~TruthyBool(a, "count"))
                           => HasPair(argv, <<"--limit">>, <<ToString(DefaultLimit)>>)
                    /\ (~Has(a, "limit") /\ TruthyBool(a, "count"))
                           => ~HasArg(argv, <<"--limit">>)

\* The places of '--admintoken' in an argument vector.
TokenFlags(argv) == { i \in 1..Len(argv) : argv[i] = <<"--admintoken">> }

\* C13 (as stated): every argument vector coho is started with carries
\* '--admintoken' exactly once, and only executeCohoCommand puts it there: no
\* tool handler starts coho with the token itself.
C13_TokenOnlyFromExecutor ==
    \A r \in Requests :
        \A i \in 1..Len(req[r].spawned) :
            LET p == req[r].spawned[i]
                argv == CohoArgv(p)
            IN  Head(Head(Programs(p))) = <<"coho">> =>
                    /\ Cardinality(TokenFlags(argv)) = 1
                    /\ p.site = "executeCohoCommand"

\* The text fields of the arguments that the handlers pass on to coho.
CallerTextFields ==
    { "collection", "query", "index", "path", "filepath", "key", "val", "keyspace",
      "context", "project" }

\* C14 (as stated): coho is started with an argument vector, never through a
\* shell, and every text value of the caller is exactly one element of that
\* vector: no value adds or splits arguments or starts another command.
C14_ArgumentVectorInvocation ==
    \A r \in Requests :
        \A i \in 1..Len(req[r].spawned) :
            LET p == req[r].spawned[i]
                a == req[r].args
            IN  p.site = "executeCohoCommand" =>
                    /\ ~p.shell
                    /\ Len(Programs(p)) = 1
                    /\ \A f \in DOMAIN a \cap CallerTextFields :
                           TruthyStr(a, f) =>
                               Cardinality({ j \in 1..Len(CohoArgv(p)) :
                                               Expand(CohoArgv(p)[j]) = Chars(a[f]) }) = 1

\* The two setup tools README.md names.
ConfigTools == { "set_admin_token", "set_project" }

\* C15 (as stated): a request for a configuration tool that arrives while the
\* project identifier or the token is empty is accepted and handled: it ends
\* with a payload that is no error.
C15_ConfigToolsExempt ==
    \A r \in Requests :
        (Done(r) /\ req[r].name \in ConfigTools /\ ~ConfigPresent) => Succeeded(r)

\* C16 (as stated): after set_project with project and space, and then
\* set_admin_token with a token only, the configuration holds the project and
\* space of the first call and the token of the second.
C16_ConfigurationMerge ==
    \A r, s \in Requests :
        ( /\ Done(r) /\ req[r].name = "set_project"
          /\ Done(s) /\ req[s].name = "set_admin_token" )
        => /\ config.projectId = req[r].params.val.project
           /\ config.space = req[r].params.val.space
           /\ config.adminToken = <<req[s].params.val.token>>

\* The requests a step belongs to: those whose handler moved.
Moved(r) == req'[r] # req[r]

\* The project and space of the coho command of subprocess p.
ProjectOf(p) ==
    LET argv == CohoArgv(p)
    IN  { argv[j + 1] : j \in { k \in 1..(Len(argv) - 1) :
                                  argv[k] \in { <<"--project">>, <<"--projectname">> } } }

\* C17: a step of a request that is not for a configuration tool leaves the
\* process-wide projectId, space and adminToken as they were, whatever the
\* request's arguments and however it ends; a deploy_code with projectId or a
\* collection with project runs coho with that project and stores nothing.
C17_ConfigWrittenOnlyByConfigTools ==
    [][ (\A r \in Requests : Moved(r) => req'[r].name \notin ConfigTools)
            => config' = config ]_vars

\* A deploy_code with projectId ran coho deploy for that project and ended, and
\* a request handled after it ran coho for the configured project.
C17_Witness ==
    /\ Done(1) /\ req[1].name = "deploy_code" /\ Has(req[1].args, "projectId")
    /\ \E i \in 1..Len(req[1].spawned) :
          /\ IsCohoDeploy(req[1].spawned[i])
          /\ ProjectOf(req[1].spawned[i]) = { <<req[1].args.projectId>> }
    /\ config.projectId # req[1].args.projectId
    /\ req[2].name = "query_collection"
    /\ \E i \in 1..Len(req[2].spawned) :
          ProjectOf(req[2].spawned[i]) = { <<config.projectId>> }

\* The command of request r ended with exit status 0.
CommandSucceeded(r) ==
    /\ req[r].spawned # <<>>
    /\ \A i \in 1..Len(req[r].spawned) : req[r].spawned[i].ended = "ok"

\* C18 (as stated): a query_collection request without csv and jsonl whose
\* command succeeded ends with a payload that is no error, whatever text the
\* command printed.
C18_ParseNeverFailsTheRequest ==
    \A r \in Requests :
        ( /\ Done(r) /\ req[r].name = "query_collection"
          /\ ~TruthyBool(req[r].args, "csv") /\ ~TruthyBool(req[r].args, "jsonl")
          /\ CommandSucceeded(r) )
        => Succeeded(r)

\* How the lines that report a failure begin.
FailureHeads ==
    { "Command failed: ", "Deployment failed. Temporary directory ", "Error: ",
      "npm install error: ", "Unknown tool requested: ",
      "CODEHOOKS_PROJECT_NAME is not set, so you need to supply the Agent with the project name",
      "CODEHOOKS_ADMIN_TOKEN is not set, so you need to supply the Agent with the admin token" }

FailureLogged(r) == \E l \in log : l.r = r /\ Head(l.text) \in FailureHeads

\* C19 (as stated): a request that ended in a failure has written at least
\* one line that reports the failure to the stderr log by the time its
\* response is produced.
C19_EveryFailureLogged ==
    \A r \in Requests : (Done(r) /\ ~Succeeded(r)) => FailureLogged(r)

\* The write loop of deploy_code request r has ended and npm install runs.
WriteLoopEnded(r) == req[r].name = "deploy_code" /\ req[r].pc = "npm"

\* The files of the staging directory of r, and the manifest read back from
\* its package.json.
StagedFiles(r) == fs[req[r].staged].content
StagedManifest(r) == JsonParse(StagedFiles(r)["package.json"], req[r].args, config)

\* The file of the arguments that goes to package.json of the staging
\* directory, if there is one.
CallerManifests(r) ==
    { i \in 1..Len(req[r].args.files) : PathJoin(req[r].args.files[i].path) = "package.json" }

\* C20 (as stated): when the write loop of a deploy_code has ended, the staging
\* directory holds a package.json; without a package.json among the files it
\* has the default name, version, main '<main>.js' and the codehooks-js
\* dependency; with a package.json of the caller that parses it has every key
\* of the caller with the caller's value and the default for every other key.
C20_DeployManifest ==
    \A r \in Requests :
        WriteLoopEnded(r) =>
            LET a == req[r].args
                d == DefaultPackage(a, config)
            IN  /\ "package.json" \in DOMAIN StagedFiles(r)
                /\ StagedManifest(r).ok
                /\ LET m == StagedManifest(r).val
                   IN  /\ CallerManifests(r) = {} =>
                              /\ m.name = d.name /\ m.version = d.version
                              /\ m.main = d.main
                              /\ "codehooks-js" \in DOMAIN m.dependencies
                       /\ \A i \in CallerManifests(r) :
                              LET p == JsonParse(a.files[i].content, a, config)
                              IN  p.ok =>
                                    /\ \A k \in DOMAIN p.val :
                                          k \in DOMAIN m /\ m[k] = p.val[k]
                                    /\ \A k \in DOMAIN m \ DOMAIN p.val : m[k] = d[k]

\* The variables the documentation requires are set in the environment.
DocumentedVariablesSet ==
    /\ container.env.CODEHOOKS_PROJECT_NAME # ""
    /\ container.env.CODEHOOKS_SPACE # ""
    /\ container.env.CODEHOOKS_ADMIN_TOKEN # <<>>

\* C21 (as stated): a container run with CODEHOOKS_PROJECT_NAME,
\* CODEHOOKS_SPACE and CODEHOOKS_ADMIN_TOKEN set passes the checks of its
\* entrypoint, and the server it starts has its project identifier and its
\* token configured.
C21_ContainerStarts ==
    (DocumentedVariablesSet /\ container.pc # "entrypoint")
        => (container.pc = "node" /\ ConfigPresent)

\* Request r starts a subprocess in this step.
Spawns(r) == Len(req'[r].spawned) > Len(req[r].spawned)

\* The removal of the staged file of r is under way.
Removing(q) == q.pc \in { "unlink", "cleanup" }

\* C22: a request of file_upload, add_schema or import with content starts
\* coho only in the step that ends its write, with the staged file holding the
\* whole content; and while it removes the staged file none of its
\* subprocesses is running.
C22_StagedResourceOrdering ==
    [][ \A r \in Requests :
            StagesFile(req'[r].name, req'[r].args) =>
                /\ Spawns(r) =>
                      /\ req[r].pc = "write"
                      /\ req[r].staged \in DOMAIN fs'
                      /\ fs'[req[r].staged] =
                            [owner |-> r, kind |-> "file",
                             content |-> StagedContent(req[r].name, req[r].args)]
                /\ Removing(req'[r]) =>
                      \A i \in 1..Len(req'[r].spawned) : req'[r].spawned[i].ended # "no" ]_vars

\* A request removes its staged file after its command failed, and another
\* after its command succeeded.
C22_Witness ==
    \E r, s \in Requests :
        /\ req[r].pc = "cleanup" /\ req[r].spawned # <<>> /\ req[r].failedAt = "coho"
        /\ req[s].pc = "unlink" /\ req[s].spawned # <<>>

\* C23 (as stated): the argument vector of every query_collection call that
\* does not ask for count carries '--limit' followed by the caller's limit
\* when there is one (0 included) and by 100 otherwise.
C23_EveryQueryCapped ==
    \A r \in Requests :
        \A i \in 1..Len(req[r].spawned) :
            LET a == req[r].args
                argv == CohoArgv(req[r].spawned[i])
            IN  (req[r].name = "query_collection" /\ ~TruthyBool(a, "count")) =>
                    HasPair(argv, <<"--limit">>,
                            <<ToString(IF Has(a, "limit") THEN a.limit ELSE DefaultLimit)>>)

\* C24 (as stated): whatever a deploy_code request has written is inside its
\* own staging directory: the only path under /tmp it is the last writer of
\* is that directory.
C24_DeployStagingIsolated ==
    \A r \in Requests :
        req[r].name = "deploy_code" =>
            \A p \in DOMAIN fs : fs[p].owner = r => p = req[r].staged

\* The arguments of request r give neither of the two fields of which its
\* tool needs one.
NeitherGiven(r) ==
    LET a == req[r].params.val
    IN  \/ /\ req[r].name = "file_delete"
           /\ ~TruthyStr(a, "filename") /\ ~TruthyStr(a, "match")
        \/ /\ req[r].name = "import"
           /\ ~TruthyStr(a, "filepath") /\ ~TruthyStr(a, "content")

EitherOrMessages ==
    { <<"Either 'filename' or 'match' must be provided.">>,
      <<"Either 'filepath' or 'content' must be provided.">> }

\* C25: with configuration present, a file_delete with neither filename nor
\* match and an import with neither filepath nor content end, as soon as they
\* are received, with an error that says one of the two must be provided;
\* they start no subprocess and stage no file.
C25_EitherOrBeforeEffects ==
    \A r \in Requests :
        ( /\ req[r].pc # "idle" /\ ConfigPresent /\ ToolLookup(revision, req[r].name)
          /\ ~Malformed(r) /\ NeitherGiven(r) )
        => /\ Done(r) /\ ~Succeeded(r)
           /\ req[r].resp.text \in EitherOrMessages
           /\ Untouched(r)

\* Both kinds of call have been rejected.
C25_Witness ==
    \E r, s \in Requests :
        /\ Done(r) /\ req[r].name = "file_delete" /\ NeitherGiven(r)
        /\ req[r].failedAt = "check"
        /\ Done(s) /\ req[s].name = "import" /\ NeitherGiven(s)
        /\ req[s].failedAt = "check"

\* C26 (as stated): the coho deploy subprocess of a deploy_code request is
\* started in that request's own staging directory, whatever other
\* deploy_code requests are in flight.
C26_DeployInOwnDirectory ==
    \A r \in Requests :
        \A i \in 1..Len(req[r].spawned) :
            IsCohoDeploy(req[r].spawned[i]) => req[r].spawned[i].cwd = req[r].staged

\* The deploy_code requests still in flight.
DeploysInFlight == { r \in Requests : req[r].name = "deploy_code" /\ InFlight(r) }

\* C27 (as stated): when no deploy_code request is in flight, the working
\* directory of the process is the one it had before the first of them
\* changed it, and no request has failed in the restore step.
C27_WorkingDirectoryRestored ==
    /\ DeploysInFlight = {} => cwd = AppDir
    /\ \A r \in Requests : req[r].err # ChdirError


\* C28: while the program started by a file_upload request runs, the file at
\* the path given to it as --src exists and holds the decoded content of that
\* request, whatever other uploads with the same base name do meanwhile.
C28_UploadContentIntegrity ==
    \A r \in Requests :
        (req[r].name = "file_upload" /\ req[r].pc = "coho")
        => /\ req[r].staged \in DOMAIN fs
           /\ fs[req[r].staged].content = StagedContent(req[r].name, req[r].args)


\* C29: a file_upload, add_schema, import or deploy_code request whose
\* external commands all completed successfully ends with a payload that is
\* no error, even when the removal of the staged file or directory or the
\* restore of the working directory failed afterwards.
C29_SuccessReportedAsSuccess ==
    \A r \in Requests :
        ( /\ Done(r) /\ req[r].name \in FileTools \cup { "deploy_code" }
          /\ CommandSucceeded(r) )
        => Succeeded(r)


\* A request of import with filepath and no content, and the steps that end
\* one of its awaits.
ImportsFromPath(q) ==
    q.name = "import" /\ TruthyStr(q.args, "filepath") /\ ~TruthyStr(q.args, "content")
Steps(r) == req'[r] # req[r]

\* C30: an import request with filepath and no content stages no file, never
\* waits for a write or an unlink, gives coho '--filepath' followed by the
\* caller's filepath, and none of its steps changes the filesystem, whether
\* it succeeds or fails; a step of an import request that removes a file
\* removes the file it staged from content and nothing else.
C30_ImportLeavesCallerPathAlone ==
    /\ [](\A r \in Requests :
            ImportsFromPath(req[r]) =>
                /\ req[r].staged = NoPath
                /\ req[r].pc \notin { "write", "unlink", "cleanup" }
                /\ \A i \in 1..Len(req[r].spawned) :
                       HasPair(CohoArgv(req[r].spawned[i]),
                               <<"--filepath">>, <<req[r].args.filepath>>))
    /\ [][\A r \in Requests :
            /\ (ImportsFromPath(req'[r]) /\ Steps(r)) => fs' = fs
            /\ (req'[r].name = "import" /\ Steps(r) /\ DOMAIN fs' # DOMAIN fs)
               => /\ StagesFile(req'[r].name, req'[r].args)
                  /\ DOMAIN fs \ DOMAIN fs' \subseteq { req[r].staged }]_vars

\* One import from a caller's path has succeeded and another has failed in
\* its command.
C30_Witness ==
    \E r, s \in Requests :
        /\ ImportsFromPath(req[r]) /\ Succeeded(r) /\ req[r].spawned # <<>>
        /\ ImportsFromPath(req[s]) /\ Done(s) /\ ~Succeeded(s) /\ req[s].failedAt = "coho"

====
